---- MODULE Spec2Model ----
(***************************************************************************)
(* geo-data-migrator (main.go): migration of countries (sequential, one    *)
(* transaction) and of cities (one producer goroutine, numWorkers worker   *)
(* goroutines, a buffered channel, one transaction per worker) from a      *)
(* SQLite origin into a PostgreSQL destination.                            *)
(***************************************************************************)
EXTENDS Integers, Sequences, FiniteSets, TLC

\* ------------------------------------------------------------------ bounds
\* runtime.NumCPU() of the machine the run is on
NumCPU == 1
\* the largest number of rows the origin table holds
MaxRecords == 3

\* ------------------------------------------------------------ data model
\* a column that holds SQL NULL
NULL == 0 - 1

\* numWorkers := runtime.NumCPU() * 2
numWorkers == NumCPU * 2
Workers == 1..numWorkers

\* variant: make(chan City, numWorkers*2)
ChanCapTwiceWorkers == 2 * numWorkers

\* make(chan City, numWorkers): the buffer size of cityChannel
ChanCap == numWorkers

\* The i-th row of the origin table (cities: name, country_code, latitude,
\* longitude; countries: name, iso2, emoji, latitude, longitude).  A row is
\* malformed when a column holds NULL, which Scan cannot store in a string
\* or float64 field.
IsoOf(i) == 40 + (i % 2)
OriginRow(i, bad) ==
    [rowid |-> i, name |-> i, code |-> IsoOf(i), emoji |-> 100 + i,
     latitude |-> IF bad THEN NULL ELSE 10 + i, longitude |-> 20 + i]

Sources ==
    UNION {[1..n -> BOOLEAN] : n \in 0..MaxRecords}
OriginTable(f) == [i \in DOMAIN f |-> OriginRow(i, f[i])]

\* rows.Scan: fails when a column cannot be converted to the field's type
ScanOK(row) ==
    /\ row.name # NULL /\ row.code # NULL
    /\ row.latitude # NULL /\ row.longitude # NULL

\* variant: Scan's last two destinations exchanged
ScanCitySwapped(row) ==
    [rowid |-> row.rowid, Name |-> row.name, CountryISOCode |-> row.code,
     Latitude |-> row.longitude, Longitude |-> row.latitude]

\* rows.Scan(&city.Name, &city.CountryISOCode, &city.Latitude, &city.Longitude)
\* over SELECT name, country_code, latitude, longitude; rowid is kept beside
\* the struct to tell which origin row a value came from.
ScanCity(row) ==
    [rowid |-> row.rowid, Name |-> row.name, CountryISOCode |-> row.code,
     Latitude |-> row.latitude, Longitude |-> row.longitude]

\* rows.Scan(&country.Name, &country.ISOCode, &country.Flag, &country.Latitude,
\* &country.Longitude) over SELECT name, iso2, emoji, latitude, longitude
ScanCountry(row) ==
    [rowid |-> row.rowid, Name |-> row.name, ISOCode |-> row.code,
     Flag |-> row.emoji, Latitude |-> row.latitude, Longitude |-> row.longitude]

\* variant: the subquery compares the countries' name column with $2
CountryIdByName(iso, table) ==
    IF \E c \in table : c.name = iso
    THEN (CHOOSE c \in table : c.name = iso).id
    ELSE NULL

\* (SELECT id FROM countries WHERE iso_code = $2): NULL when no row matches
CountryId(iso, table) ==
    IF \E c \in table : c.iso_code = iso
    THEN (CHOOSE c \in table : c.iso_code = iso).id
    ELSE NULL

\* INSERT INTO cities (name, country_iso_code, lat, lng, country_id)
\* VALUES ($1, $2, $3, $4, (SELECT ...)) with city.Name, city.CountryISOCode,
\* city.Latitude, city.Longitude; by: the worker whose transaction holds it.
CityRow(city, table, w) ==
    [src |-> city.rowid, by |-> w, name |-> city.Name,
     country_iso_code |-> city.CountryISOCode,
     lat |-> city.Latitude, lng |-> city.Longitude,
     country_id |-> CountryId(city.CountryISOCode, table)]

\* INSERT INTO countries (name, iso_code, flag, lat, lng) VALUES ($1..$5)
\* with country.Name, country.ISOCode, country.Flag, country.Latitude,
\* country.Longitude
CountryRow(country) ==
    [src |-> country.rowid, id |-> country.rowid, name |-> country.Name,
     iso_code |-> country.ISOCode, flag |-> country.Flag,
     lat |-> country.Latitude, lng |-> country.Longitude]

\* the countries the destination may hold before a city run
SeedCountries ==
    {{}, {CountryRow(ScanCountry(OriginRow(1, FALSE)))}}

Range(s) == {s[i] : i \in DOMAIN s}

\* var city City / var country Country: the zero value
NoCity == ScanCity(OriginRow(0, FALSE))

\* ---------------------------------------------------------------- state
VARIABLES
    kind,        \* os.Args[1]: "country" or "city"
    origin,      \* the origin table the query reads
    countries,   \* destination table countries (committed rows)
    cities,      \* destination table cities (committed rows)
    main,        \* where the main goroutine is
    rowsClosed,  \* rows.Close() has run
    pos,         \* number of rows rows.Next() has returned
    pcProd,      \* where the producer goroutine is
    city,        \* the producer's loop variable while it sends
    queue,       \* the buffer of cityChannel
    closed,      \* close(cityChannel) has run
    pushed,      \* rowids sent on cityChannel, in order
    pc,          \* where each worker is
    cur,         \* a worker's loop variable while it inserts
    count,       \* a worker's count (the country run's count at index 0)
    tx,          \* a transaction's state, per worker (country run: index 0)
    txRows,      \* rows inserted in a transaction, not yet committed
    dequeued,    \* rowids each worker received, in order (country run,
                 \* index 0: the rowids its loop scanned)
    wg,          \* the WaitGroup's counter
    out          \* the counts printed: [w |-> who, n |-> count]

vars == <<kind, origin, countries, cities, main, rowsClosed, pos, pcProd, city,
          queue, closed, pushed, pc, cur, count, tx, txRows, dequeued, wg, out>>

Procs == 0..numWorkers

\* main() up to the switch on os.Args[1]; the run's origin table and the
\* destination's contents are whatever they are when the process starts.
Start ==
    /\ kind \in {"country", "city"}
    /\ origin \in {OriginTable(f) : f \in Sources}
    /\ main = "query"
    /\ rowsClosed = FALSE
    /\ pos = 0
    /\ pcProd = "idle"
    /\ city = NoCity
    /\ queue = <<>>
    /\ closed = FALSE
    /\ pushed = <<>>
    /\ pc = [w \in Workers |-> "idle"]
    /\ cur = [w \in Procs |-> NoCity]
    /\ count = [w \in Procs |-> 0]
    /\ tx = [w \in Procs |-> "none"]
    /\ txRows = [w \in Procs |-> <<>>]
    /\ dequeued = [w \in Procs |-> <<>>]
    /\ wg = 0
    /\ out = {}

\* a run against a destination no run has filled yet
Init ==
    /\ Start
    /\ countries \in (IF kind = "city" THEN SeedCountries ELSE {{}})
    /\ cities = {}

\* The rows an earlier run of the same migration over the same origin left in
\* the destination: for each rowid in S the row that run committed. A table
\* is a bag of rows, so a row of the earlier run carries the mark prior, which
\* is no column and which no statement of the program reads.
EarlierRows(S, table) ==
    IF kind = "city"
    THEN {CityRow(ScanCity(origin[i]), table, 1 + (i % numWorkers))
              @@ [prior |-> TRUE] : i \in S}
    ELSE {CountryRow(ScanCountry(origin[i])) @@ [prior |-> TRUE] : i \in S}

\* a second run: main() starts against the destination an earlier run left
InitRerun ==
    /\ Start
    /\ \E S \in SUBSET {i \in DOMAIN origin : ScanOK(origin[i])} :
          \E seed \in SeedCountries :
             IF kind = "city"
             THEN countries = seed /\ cities = EarlierRows(S, seed)
             ELSE countries = EarlierRows(S, {}) /\ cities = {}

\* the process is alive and the goroutines of the city run have been started
Running == main \in {"wait", "reported"}

\* ------------------------------------------------- migrateCitiesConcurrently
\* sqliteDB.Query fails: log.Fatal
CityQueryFail ==
    /\ kind = "city" /\ main = "query"
    /\ main' = "fatal"
    /\ UNCHANGED <<kind, origin, countries, cities, rowsClosed, pos, pcProd, city,
                   queue, closed, pushed, pc, cur, count, tx, txRows, dequeued,
                   wg, out>>

\* Query succeeds; make(chan City, numWorkers); numWorkers times wg.Add(1) and
\* go worker(...); go func() {...}(); main goes on to wg.Wait()
CityLaunch ==
    /\ kind = "city" /\ main = "query"
    /\ main' = "wait"
    /\ wg' = wg + numWorkers
    /\ pc' = [w \in Workers |-> "begin"]
    /\ pcProd' = "next"
    /\ UNCHANGED <<kind, origin, countries, cities, rowsClosed, pos, city, queue,
                   closed, pushed, cur, count, tx, txRows, dequeued, out>>

\* variant: one wg.Done() too many for the workers launched
WaitReturnsEarly == wg <= 1

\* wg.Wait() returns when the counter is zero
WaitReturns == wg = 0

\* wg.Wait() returns; fmt.Println("City migration completed"); return, which
\* runs the deferred rows.Close()
CityReport ==
    /\ kind = "city" /\ main = "wait"
    /\ WaitReturns
    /\ main' = "reported"
    /\ rowsClosed' = TRUE
    /\ UNCHANGED <<kind, origin, countries, cities, pos, pcProd, city, queue,
                   closed, pushed, pc, cur, count, tx, txRows, dequeued, wg, out>>

\* main returns after migrateCountries or migrateCitiesConcurrently returned:
\* the process ends, and with it every goroutine still alive
Exit ==
    /\ main = "reported"
    /\ main' = "exited"
    /\ UNCHANGED <<kind, origin, countries, cities, rowsClosed, pos, pcProd, city,
                   queue, closed, pushed, pc, cur, count, tx, txRows, dequeued,
                   wg, out>>

\* --------------------------------------------------------------- producer
\* variant: break after a Scan error
BreakAfterScanError == "close"

\* what the producer does after a Scan error: continue
AfterScanError == "next"

\* for rows.Next() { err := rows.Scan(...); if err != nil { log; continue } ...
\* rows.Next() is false when the rows are exhausted or have been closed (a
\* Scan on closed rows is an error too, and the Next after it is false).
ProducerNext ==
    /\ Running /\ pcProd = "next"
    /\ IF rowsClosed \/ pos = Len(origin)
       THEN /\ pcProd' = "close"
            /\ UNCHANGED <<pos, city>>
       ELSE /\ pos' = pos + 1
            /\ IF ScanOK(origin[pos + 1])
               THEN /\ city' = ScanCity(origin[pos + 1])
                    /\ pcProd' = "push"
               ELSE /\ pcProd' = AfterScanError
                    /\ UNCHANGED city
    /\ UNCHANGED <<kind, origin, countries, cities, main, rowsClosed, queue,
                   closed, pushed, pc, cur, count, tx, txRows, dequeued, wg, out>>

\* cityChannel <- city: blocks while the buffer is full
CanSend == Len(queue) < ChanCap

ProducerPush ==
    /\ Running /\ pcProd = "push"
    /\ CanSend
    /\ queue' = Append(queue, city)
    /\ pushed' = Append(pushed, city.rowid)
    /\ pcProd' = "next"
    /\ UNCHANGED <<kind, origin, countries, cities, main, rowsClosed, pos, city,
                   closed, pc, cur, count, tx, txRows, dequeued, wg, out>>

\* close(cityChannel)
ProducerClose ==
    /\ Running /\ pcProd = "close"
    /\ closed' = TRUE
    /\ pcProd' = "done"
    /\ UNCHANGED <<kind, origin, countries, cities, main, rowsClosed, pos, city,
                   queue, pushed, pc, cur, count, tx, txRows, dequeued, wg, out>>

\* ----------------------------------------------------------------- worker
\* variant: log.Fatal on a worker's error, as migrateCountries does
WorkerErrorIsFatal(m) == "fatal"

\* a worker's error paths are log.Printf and return: the process goes on
AfterWorkerError(m) == m

\* variant: the deferred Rollback undoes any transaction that was begun
RollbackUndoes(st) == IF st = "none" THEN st ELSE "rolledback"

\* return from worker: the deferred tx.Rollback (when a transaction was
\* begun; a no-op on a transaction already finished) and wg.Done()
Rollback(st) == IF st \in {"active", "aborted"} THEN "rolledback" ELSE st

\* variant: wg.Done() called at the end of worker instead of deferred, so
\* the early return after a failed Begin skips it
WorkerBeginNoDone(w) ==
    /\ Running /\ pc[w] = "begin"
    /\ \/ /\ tx' = [tx EXCEPT ![w] = "active"]
          /\ pc' = [pc EXCEPT ![w] = "prepare"]
       \/ /\ pc' = [pc EXCEPT ![w] = "done"]
          /\ UNCHANGED tx
    /\ UNCHANGED <<kind, origin, countries, cities, main, rowsClosed, pos, pcProd,
                   city, queue, closed, pushed, cur, count, txRows, dequeued, out,
                   wg>>

\* tx, err := pgPool.Begin(ctx); if err != nil { log; return }
WorkerBegin(w) ==
    /\ Running /\ pc[w] = "begin"
    /\ \/ /\ tx' = [tx EXCEPT ![w] = "active"]
          /\ pc' = [pc EXCEPT ![w] = "prepare"]
          /\ UNCHANGED <<wg, main>>
       \/ /\ pc' = [pc EXCEPT ![w] = "done"]
          /\ wg' = wg - 1
          /\ main' = AfterWorkerError(main)
          /\ UNCHANGED tx
    /\ UNCHANGED <<kind, origin, countries, cities, rowsClosed, pos, pcProd,
                   city, queue, closed, pushed, cur, count, txRows, dequeued, out>>

\* _, err = tx.Prepare(ctx, "insert_city", ...); if err != nil { log; return }
WorkerPrepare(w) ==
    /\ Running /\ pc[w] = "prepare"
    /\ \/ /\ pc' = [pc EXCEPT ![w] = "loop"]
          /\ UNCHANGED <<tx, wg, main>>
       \/ /\ pc' = [pc EXCEPT ![w] = "done"]
          /\ tx' = [tx EXCEPT ![w] = Rollback(tx[w])]
          /\ wg' = wg - 1
          /\ main' = AfterWorkerError(main)
    /\ UNCHANGED <<kind, origin, countries, cities, rowsClosed, pos, pcProd,
                   city, queue, closed, pushed, cur, count, txRows, dequeued, out>>

\* variant: a non-blocking receive, which ends the loop on an empty buffer
RangeEndsOnEmpty == TRUE

\* for city := range cityChannel: the loop ends when the channel is closed
\* and its buffer is empty
RangeEnds == closed /\ queue = <<>>

\* variant: the relay hands out its newest record first
WorkerRecvNewest(w) ==
    /\ Running /\ pc[w] = "loop"
    /\ IF queue # <<>>
       THEN /\ cur' = [cur EXCEPT ![w] = queue[Len(queue)]]
            /\ queue' = SubSeq(queue, 1, Len(queue) - 1)
            /\ dequeued' = [dequeued EXCEPT ![w] =
                               Append(@, queue[Len(queue)].rowid)]
            /\ pc' = [pc EXCEPT ![w] = "exec"]
       ELSE /\ RangeEnds
            /\ pc' = [pc EXCEPT ![w] = "commit"]
            /\ UNCHANGED <<cur, queue, dequeued>>
    /\ UNCHANGED <<kind, origin, countries, cities, main, rowsClosed, pos, pcProd,
                   city, closed, pushed, count, tx, txRows, wg, out>>

\* one receive of the range loop: a city from the buffer, or the end of the loop
WorkerRecv(w) ==
    /\ Running /\ pc[w] = "loop"
    /\ IF queue # <<>>
       THEN /\ cur' = [cur EXCEPT ![w] = Head(queue)]
            /\ queue' = Tail(queue)
            /\ dequeued' = [dequeued EXCEPT ![w] = Append(@, Head(queue).rowid)]
            /\ pc' = [pc EXCEPT ![w] = "exec"]
       ELSE /\ RangeEnds
            /\ pc' = [pc EXCEPT ![w] = "commit"]
            /\ UNCHANGED <<cur, queue, dequeued>>
    /\ UNCHANGED <<kind, origin, countries, cities, main, rowsClosed, pos, pcProd,
                   city, closed, pushed, count, tx, txRows, wg, out>>

\* The outcomes of tx.Exec on an open transaction: the row is inserted; the
\* server rejects the statement (a constraint, a bad value), which leaves the
\* PostgreSQL transaction aborted; or the statement fails before it reaches
\* the server.  On an aborted transaction every statement is rejected.
ExecOutcomes(st) ==
    IF st = "aborted" THEN {"rejected"} ELSE {"ok", "rejected", "unsent"}

\* variant: count++ placed before the error check
CountAfterAlways(n, o) == n + 1

\* count after an Exec with outcome o: if err != nil { log; continue }; count++
CountAfter(n, o) == IF o = "ok" THEN n + 1 ELSE n

\* _, err = tx.Exec(ctx, "insert_city", city.Name, city.CountryISOCode,
\* city.Latitude, city.Longitude); if err != nil { log; continue }; count++
WorkerExec(w) ==
    /\ Running /\ pc[w] = "exec"
    /\ \E o \in ExecOutcomes(tx[w]) :
          /\ txRows' = [txRows EXCEPT ![w] =
                           IF o = "ok" THEN Append(@, CityRow(cur[w], countries, w))
                           ELSE @]
          /\ tx' = [tx EXCEPT ![w] = IF o = "rejected" THEN "aborted" ELSE @]
          /\ count' = [count EXCEPT ![w] = CountAfter(@, o)]
    /\ pc' = [pc EXCEPT ![w] = "loop"]
    /\ UNCHANGED <<kind, origin, countries, cities, main, rowsClosed, pos, pcProd,
                   city, queue, closed, pushed, cur, dequeued, wg, out>>

\* variant: the insert skips a row the table already holds a copy of
AddedIfAbsent(table, rows) ==
    table \cup {r \in rows : \A e \in table : e.src # r.src}

\* The table after a transaction that inserted rows commits: the INSERT
\* statements have no ON CONFLICT or WHERE NOT EXISTS clause, so every row
\* is added whatever the table holds.
Added(table, rows) == table \cup rows

\* The outcomes of tx.Commit: COMMIT of an aborted transaction rolls it back
\* and pgx returns ErrTxCommitRollback; otherwise it commits or fails.
CommitOutcomes(st) ==
    IF st = "aborted" THEN {"failed"} ELSE {"committed", "failed"}

\* variant: the count is printed whatever tx.Commit returned
WorkerPrintsAlways(w, o) == {[w |-> w, n |-> count[w]]}

\* what a worker prints after tx.Commit with outcome o
WorkerPrints(w, o) ==
    IF o = "committed" THEN {[w |-> w, n |-> count[w]]} ELSE {}

\* err = tx.Commit(ctx); if err != nil { log; return };
\* fmt.Printf("Worker finished, migrated %d cities\n", count); return, and
\* either return runs the deferred tx.Rollback on what Commit left
WorkerCommit(w) ==
    /\ Running /\ pc[w] = "commit"
    /\ \E o \in CommitOutcomes(tx[w]) :
          /\ tx' = [tx EXCEPT ![w] = Rollback(o)]
          /\ cities' = IF Rollback(o) = "committed"
                       THEN Added(cities, Range(txRows[w]))
                       ELSE cities
          /\ out' = out \cup WorkerPrints(w, o)
          /\ main' = IF o = "committed" THEN main ELSE AfterWorkerError(main)
    /\ pc' = [pc EXCEPT ![w] = "done"]
    /\ wg' = wg - 1
    /\ UNCHANGED <<kind, origin, countries, rowsClosed, pos, pcProd, city,
                   queue, closed, pushed, cur, count, txRows, dequeued>>

\* --------------------------------------------------------- migrateCountries
\* sqliteDB.Query, pgPool.Begin and tx.Prepare in turn; each failure is
\* log.Fatal, which ends the process without running the deferred calls
CountrySetup ==
    /\ kind = "country" /\ main \in {"query", "begin", "prepare"}
    /\ \/ /\ main' = "fatal"
          /\ UNCHANGED tx
       \/ /\ main' = CASE main = "query" -> "begin"
                       [] main = "begin" -> "prepare"
                       [] OTHER -> "loop"
          /\ tx' = [tx EXCEPT ![0] = IF main = "begin" THEN "active" ELSE @]
    /\ UNCHANGED <<kind, origin, countries, cities, rowsClosed, pos, pcProd, city,
                   queue, closed, pushed, pc, cur, count, txRows, dequeued, wg,
                   out>>

\* for rows.Next() { err := rows.Scan(...); if err != nil { log; continue } ...
CountryNext ==
    /\ kind = "country" /\ main = "loop"
    /\ IF pos = Len(origin)
       THEN /\ main' = "commit"
            /\ UNCHANGED <<pos, cur, dequeued>>
       ELSE /\ pos' = pos + 1
            /\ IF ScanOK(origin[pos + 1])
               THEN /\ cur' = [cur EXCEPT ![0] = ScanCountry(origin[pos + 1])]
                    /\ dequeued' = [dequeued EXCEPT ![0] = Append(@, pos + 1)]
                    /\ main' = "exec"
               ELSE /\ main' = "loop"
                    /\ UNCHANGED <<cur, dequeued>>
    /\ UNCHANGED <<kind, origin, countries, cities, rowsClosed, pcProd, city,
                   queue, closed, pushed, pc, count, tx, txRows, wg, out>>

\* _, err = tx.Exec(ctx, "insert_country", country.Name, country.ISOCode,
\* country.Flag, country.Latitude, country.Longitude);
\* if err != nil { log; continue }; count++
CountryExec ==
    /\ kind = "country" /\ main = "exec"
    /\ \E o \in ExecOutcomes(tx[0]) :
          /\ txRows' = [txRows EXCEPT ![0] =
                           IF o = "ok" THEN Append(@, CountryRow(cur[0])) ELSE @]
          /\ tx' = [tx EXCEPT ![0] = IF o = "rejected" THEN "aborted" ELSE @]
          /\ count' = [count EXCEPT ![0] = CountAfter(@, o)]
    /\ main' = "loop"
    /\ UNCHANGED <<kind, origin, countries, cities, rowsClosed, pos, pcProd, city,
                   queue, closed, pushed, pc, cur, dequeued, wg, out>>

\* err = tx.Commit(ctx); if err != nil { log.Fatal(err) };
\* fmt.Printf("Migrated %d countries ...", count); return, which runs the
\* deferred tx.Rollback (a no-op now) and rows.Close()
CountryCommit ==
    /\ kind = "country" /\ main = "commit"
    /\ \E o \in CommitOutcomes(tx[0]) :
          /\ tx' = [tx EXCEPT ![0] = IF o = "committed" THEN Rollback(o) ELSE o]
          /\ IF o = "committed"
             THEN /\ countries' = IF Rollback(o) = "committed"
                                  THEN Added(countries, Range(txRows[0]))
                                  ELSE countries
                  /\ out' = out \cup {[w |-> 0, n |-> count[0]]}
                  /\ main' = "reported"
                  /\ rowsClosed' = TRUE
             ELSE /\ main' = "fatal"
                  /\ UNCHANGED <<countries, out, rowsClosed>>
    /\ UNCHANGED <<kind, origin, cities, pos, pcProd, city, queue, closed,
                   pushed, pc, cur, count, txRows, dequeued, wg>>

\* ------------------------------------------------------------ specification
Next ==
    \/ CityQueryFail
    \/ CityLaunch
    \/ CityReport
    \/ Exit
    \/ ProducerNext
    \/ ProducerPush
    \/ ProducerClose
    \/ \E w \in Workers : WorkerBegin(w)
    \/ \E w \in Workers : WorkerPrepare(w)
    \/ \E w \in Workers : WorkerRecv(w)
    \/ \E w \in Workers : WorkerExec(w)
    \/ \E w \in Workers : WorkerCommit(w)
    \/ CountrySetup
    \/ CountryNext
    \/ CountryExec
    \/ CountryCommit

Spec == Init /\ [][Next]_vars

\* the same program, run a second time
RerunSpec == InitRerun /\ [][Next]_vars

\* The Go scheduler runs every goroutine that can take a step, and the
\* process exits once main returns.
FairSpec ==
    /\ Spec
    /\ WF_vars(CityLaunch \/ CityQueryFail)
    /\ WF_vars(CityReport)
    /\ WF_vars(Exit)
    /\ WF_vars(ProducerNext)
    /\ WF_vars(ProducerPush)
    /\ WF_vars(ProducerClose)
    /\ \A w \in Workers :
          WF_vars(WorkerBegin(w) \/ WorkerPrepare(w) \/ WorkerRecv(w)
                  \/ WorkerExec(w) \/ WorkerCommit(w))
    /\ WF_vars(CountrySetup \/ CountryNext \/ CountryExec \/ CountryCommit)

\* ----------------------------------------------------------------- claims
RECURSIVE SumOver(_, _)
SumOver(f, S) ==
    IF S = {} THEN 0
    ELSE LET x == CHOOSE y \in S : TRUE IN f[x] + SumOver(f, S \ {x})

\* rowids of the origin rows that decode
WellFormed == {i \in DOMAIN origin : ScanOK(origin[i])}
\* how many times rowid i was received from the relay, over all workers
Occ(i) ==
    SumOver([w \in Workers |->
                Cardinality({k \in DOMAIN dequeued[w] : dequeued[w][k] = i})],
            Workers)
\* the sum of the counts the workers printed
SumReported == SumOver([m \in out |-> m.n], {m \in out : m.w \in Workers})
\* the number of Exec calls that returned no error, over all workers
InsertsOK == SumOver([w \in Workers |-> Len(txRows[w])], Workers)
\* the same, over the workers whose Commit returned no error
InsertsCommitted ==
    SumOver([w \in Workers |-> IF tx[w] = "committed" THEN Len(txRows[w]) ELSE 0],
            Workers)
\* a worker has left its range loop
LeftLoop(w) == pc[w] = "commit" \/ tx[w] \in {"committed", "failed"}
CityOver == kind = "city" /\ main \in {"reported", "exited"}

\* C1 as stated: when a city run with more decoded records than workers is
\* over and all its workers consumed from the relay, every decoded record was
\* received by exactly one worker and the printed counts sum to the number of
\* inserts that succeeded.
C1_Original ==
    (/\ CityOver
     /\ Cardinality(WellFormed) > numWorkers
     /\ \A w \in Workers : LeftLoop(w)) =>
        /\ \A i \in WellFormed : Occ(i) = 1
        /\ SumReported = InsertsOK

\* C1 amended: no record is received by two workers; only decoded, pushed
\* records are received; once a worker has left its consume loop every decoded
\* record has been received by exactly one worker; and the printed counts sum
\* to the number of inserts that succeeded in workers whose commit succeeded,
\* which is the number of city rows in the destination.
C1_OncePerRecordAndCommittedCount ==
    kind = "city" =>
        /\ \A i \in DOMAIN origin : Occ(i) <= 1
        /\ \A i \in DOMAIN origin :
              Occ(i) = 1 => i \in WellFormed /\ i \in Range(pushed)
        /\ (\E w \in Workers : LeftLoop(w)) => \A i \in WellFormed : Occ(i) = 1
        /\ SumReported = InsertsCommitted
        /\ SumReported = Cardinality(cities)

\* more records than workers, each worker received some, one worker's commit
\* failed after a successful insert and the other committed and printed
C1_Witness ==
    /\ CityOver
    /\ Cardinality(WellFormed) > numWorkers
    /\ \A w \in Workers : Len(dequeued[w]) >= 1
    /\ \E w \in Workers : tx[w] = "failed" /\ Len(txRows[w]) >= 1
    /\ \E w \in Workers : tx[w] = "committed" /\ count[w] >= 1
    /\ SumReported >= 1

\* C2: a city run that was launched reaches Reported, whatever the outcome of
\* each worker's Begin, Prepare, Exec and Commit: the coordinator does not
\* wait forever.
C2_RunCompletes == (main = "wait") ~> (main = "reported")

\* a run reported after one worker's Begin failed and the other's Commit failed
C2_Witness ==
    /\ kind = "city" /\ main = "reported"
    /\ Len(origin) = MaxRecords
    /\ \E w \in Workers : tx[w] = "none"
    /\ \E w \in Workers : tx[w] = "failed"

\* C3: the completion notice is printed, and the coordinator returns, only
\* when every launched worker has returned.
C3_ReportAfterAllWorkers ==
    CityOver => /\ \A w \in Workers : pc[w] = "done"
                /\ wg = 0

\* reported after both workers consumed and committed
C3_Witness ==
    /\ kind = "city" /\ main = "reported"
    /\ \A w \in Workers : tx[w] = "committed" /\ Len(txRows[w]) >= 1

\* a step in which worker w returns without having committed
WorkerStops(w) == pc[w] # "done" /\ pc'[w] = "done" /\ tx'[w] # "committed"
\* worker w has returned after a failed Begin, Prepare or Commit
Stopped(w) == pc[w] = "done" /\ tx[w] # "committed"

\* C4: when a worker's Begin, Prepare or Commit fails, only that worker stops:
\* none of its inserts is in the destination, the process goes on, the relay
\* and every other worker are left as they were, and another worker can still
\* receive from the relay and commit.
C4_FailureIsolated ==
    /\ [](\A r \in cities : tx[r.by] = "committed")
    /\ [](\A w \in Workers : \A v \in Workers \ {w} :
            (Stopped(w) /\ main = "wait") =>
               /\ (pc[v] = "loop" /\ queue # <<>>) => ENABLED WorkerRecv(v)
               /\ (pc[v] = "commit" /\ tx[v] = "active") =>
                     ENABLED (WorkerCommit(v) /\ tx'[v] = "committed"))
    /\ [][\A w \in Workers : WorkerStops(w) =>
            /\ main' = main
            /\ cities' = cities /\ queue' = queue /\ closed' = closed
            /\ \A v \in Workers \ {w} :
                  /\ pc'[v] = pc[v] /\ tx'[v] = tx[v]
                  /\ txRows'[v] = txRows[v] /\ count'[v] = count[v]]_vars

\* one worker's commit failed after an insert, the other received records
\* and committed them
C4_Witness ==
    \E w \in Workers : \E v \in Workers \ {w} :
        /\ Stopped(w) /\ tx[w] = "failed" /\ Len(txRows[w]) >= 1
        /\ tx[v] = "committed" /\ Len(txRows[v]) >= 2
        /\ Cardinality(cities) = Len(txRows[v])

\* an Exec of worker w has returned an error
InsertFailed(w) ==
    Len(txRows[w]) < Len(dequeued[w]) - (IF pc[w] = "exec" THEN 1 ELSE 0)

\* C5: after an insert of a worker failed, the worker has not counted the
\* record, goes on to the next record, and its commit still succeeds, so that
\* the records it did insert reach the destination.
C5_Original ==
    \A w \in Workers :
        (InsertFailed(w) /\ Len(txRows[w]) >= 1 /\ Running) =>
            /\ count[w] = Len(txRows[w])
            /\ pc[w] \in {"loop", "exec", "commit", "done"}
            /\ pc[w] = "commit" => ENABLED (WorkerCommit(w) /\ tx'[w] = "committed")

\* C6: the relay is closed at most once, by the one producer, only after the
\* producer has enumerated the whole source, and nothing is pushed after it.
C6_Original ==
    kind = "city" =>
        /\ pcProd = "close" => ~closed
        /\ closed => pcProd = "done"
        /\ closed => pos = Len(origin)

\* C7: a worker that reached its consume loop commits only after it has seen
\* the relay closed and empty, and a worker that has committed stays returned:
\* it receives and inserts nothing more.
C7_CommitAfterDrain ==
    /\ [](\A w \in Workers : LeftLoop(w) => closed /\ queue = <<>>)
    /\ [](\A w \in Workers : tx[w] \in {"committed", "failed"} => pc[w] = "done")
    /\ [][\A w \in Workers :
            tx[w] \in {"committed", "failed"} =>
                /\ pc'[w] = "done" /\ tx'[w] = tx[w]
                /\ txRows'[w] = txRows[w] /\ dequeued'[w] = dequeued[w]]_vars

\* a worker about to commit the records it received
C7_Witness ==
    \E w \in Workers : pc[w] = "commit" /\ Len(txRows[w]) >= 2

\* C8 as stated: the relay holds up to 2 x numWorkers records, and the
\* producer can push whenever it holds fewer.
C8_Original ==
    /\ Len(queue) <= 2 * numWorkers
    /\ (Running /\ pcProd = "push" /\ Len(queue) < 2 * numWorkers) =>
          ENABLED ProducerPush

\* C8 amended: the relay's capacity is the number of workers; it never holds
\* more records; the producer is blocked from pushing exactly when it is full.
C8_CapacityIsNumWorkers ==
    /\ Len(queue) <= numWorkers
    /\ (Running /\ pcProd = "push") =>
          ((ENABLED ProducerPush) <=> Len(queue) < numWorkers)

\* the producer holds a record and the relay is full
C8_Witness ==
    /\ Running /\ pcProd = "push"
    /\ Len(queue) = numWorkers
    /\ ~ ENABLED ProducerPush

\* the rows the run has added to the destination
Migrated == IF kind = "city" THEN cities ELSE countries
FieldsMatch(r) ==
    /\ r.name = origin[r.src].name
    /\ r.lat = origin[r.src].latitude
    /\ r.lng = origin[r.src].longitude
    /\ IF kind = "city" THEN r.country_iso_code = origin[r.src].code
       ELSE r.iso_code = origin[r.src].code
\* rowids whose insert succeeded in a transaction that committed
CommittedSrc ==
    {i \in DOMAIN origin :
        \E w \in Procs : /\ tx[w] = "committed"
                         /\ \E k \in DOMAIN txRows[w] : txRows[w][k].src = i}
RowsOf(i) == {r \in Migrated : r.src = i}
RunOver == main \in {"reported", "exited"}

\* C9 as stated: after a run every well-formed origin row has exactly one
\* row in the destination, with equal name, code and coordinates.
C9_Original ==
    RunOver => \A i \in WellFormed :
                  /\ Cardinality(RowsOf(i)) = 1
                  /\ \A r \in RowsOf(i) : FieldsMatch(r)

\* C9 amended: the destination never holds two rows for one origin row, and
\* every row it holds has the name, code and coordinates of a well-formed
\* origin row; after a run it holds exactly one row for each origin row whose
\* insert succeeded in a transaction that committed, and none for the others.
C9_MappingOfCommittedRows ==
    /\ \A r \in Migrated : r.src \in WellFormed /\ FieldsMatch(r)
    /\ \A i \in DOMAIN origin : Cardinality(RowsOf(i)) <= 1
    /\ RunOver => \A i \in DOMAIN origin :
                     Cardinality(RowsOf(i)) = (IF i \in CommittedSrc THEN 1 ELSE 0)

\* a city run over with every origin row in the destination
C9_Witness ==
    /\ kind = "city" /\ RunOver
    /\ Len(origin) = MaxRecords
    /\ \A i \in DOMAIN origin : Cardinality(RowsOf(i)) = 1

\* the records the enumeration has handed on so far
Produced ==
    IF kind = "city"
    THEN (IF pcProd = "push" THEN Append(pushed, city.rowid) ELSE pushed)
    ELSE dequeued[0]
RECURSIVE WellFormedUpTo(_)
WellFormedUpTo(n) ==
    IF n = 0 THEN <<>>
    ELSE IF ScanOK(origin[n]) THEN Append(WellFormedUpTo(n - 1), n)
         ELSE WellFormedUpTo(n - 1)
\* a step that reads a row that fails to decode
SkipsRow == pos' = pos + 1 /\ ~ScanOK(origin[pos'])

\* C10: a row that fails to decode is skipped and nothing else: it is never
\* pushed, received or inserted; the rows handed on are exactly the
\* well-formed rows read so far, in order; the step that skips it leaves the
\* enumeration in its loop; and the enumeration ends only when the source is
\* exhausted (or, in a city run, the cursor has been closed).
C10_SkipOnDecodeFailure ==
    /\ [](Produced = WellFormedUpTo(pos))
    /\ [](/\ \A k \in DOMAIN queue : queue[k].rowid \in WellFormed
          /\ \A w \in Procs : Range(dequeued[w]) \subseteq WellFormed
          /\ \A w \in Procs : \A k \in DOMAIN txRows[w] :
                txRows[w][k].src \in WellFormed
          /\ \A r \in Migrated : r.src \in WellFormed)
    /\ []((kind = "city" /\ pcProd \in {"close", "done"} /\ ~rowsClosed) =>
             pos = Len(origin))
    /\ []((kind = "country" /\ main \in {"commit", "reported", "exited"}) =>
             pos = Len(origin))
    /\ [][SkipsRow =>
            /\ kind = "city" => pcProd' = "next"
            /\ kind = "country" => main' = "loop"
            /\ UNCHANGED <<queue, pushed, dequeued, txRows, count, cities,
                           countries, closed>>]_vars

\* the first row failed to decode and the row after it is in the destination
C10_Witness ==
    /\ RunOver /\ Len(origin) >= 2
    /\ ~ScanOK(origin[1]) /\ ScanOK(origin[2])
    /\ \E r \in Migrated : r.src = 2

RECURSIVE IsSubseq(_, _)
\* a is b with some elements left out
IsSubseq(a, b) ==
    IF a = <<>> THEN TRUE
    ELSE IF b = <<>> THEN FALSE
    ELSE IF Head(a) = Head(b) THEN IsSubseq(Tail(a), Tail(b))
    ELSE IsSubseq(a, Tail(b))
\* the origin rowids of a sequence of inserted rows
SrcSeq(rows) == [k \in DOMAIN rows |-> rows[k].src]
\* the source order
SourceOrder == [i \in 1..Len(origin) |-> i]

\* C11: a worker inserts the records it received in the order it received
\* them (each Exec is of the record received last), and receives them in the
\* order the producer pushed them, which is the source order; nothing orders
\* the inserts of two workers.
C11_OrderWithinWorker ==
    /\ [](kind = "city" =>
            /\ IsSubseq(pushed, SourceOrder)
            /\ \A w \in Workers :
                  /\ IsSubseq(dequeued[w], pushed)
                  /\ IsSubseq(SrcSeq(txRows[w]), dequeued[w])
                  /\ pc[w] = "exec" =>
                        cur[w].rowid = dequeued[w][Len(dequeued[w])])
    /\ [][\A w \in Workers :
            txRows'[w] # txRows[w] =>
                /\ Len(txRows'[w]) = Len(txRows[w]) + 1
                /\ SubSeq(txRows'[w], 1, Len(txRows[w])) = txRows[w]
                /\ txRows'[w][Len(txRows'[w])].src =
                      dequeued[w][Len(dequeued[w])]]_vars

\* a worker still holds the first record, not yet inserted, while another
\* worker has already inserted the second
C11_Witness ==
    \E a \in Workers : \E b \in Workers \ {a} :
        /\ pc[a] = "exec" /\ cur[a].rowid = 1
        /\ Len(txRows[b]) >= 1 /\ txRows[b][1].src = 2

\* the destination countries whose iso_code is that of city row r
CountriesOf(r) == {c \in countries : c.iso_code = r.country_iso_code}
\* row r references a country with its code when there is one, else NULL
Resolved(r) ==
    IF CountriesOf(r) = {} THEN r.country_id = NULL
    ELSE r.country_id \in {c.id : c \in CountriesOf(r)}

\* C12: every city row inserted references the destination country with the
\* city's ISO code when one exists at the insert, and NULL when none does;
\* the insert of a city without a country can succeed like any other, and
\* every inserted row is counted, a NULL reference included.
C12_CountryResolvedInStatement ==
    kind = "city" =>
        /\ \A r \in cities : Resolved(r)
        /\ \A w \in Workers :
              /\ \A k \in DOMAIN txRows[w] : Resolved(txRows[w][k])
              /\ count[w] = Len(txRows[w])
              /\ (Running /\ pc[w] = "exec" /\ tx[w] = "active") =>
                    ENABLED (/\ WorkerExec(w)
                             /\ count'[w] = count[w] + 1
                             /\ Len(txRows'[w]) = Len(txRows[w]) + 1)

\* a worker has committed and counted two rows, one that references the
\* destination's country and one whose reference is NULL
C12_Witness ==
    \E w \in Workers :
        /\ tx[w] = "committed" /\ count[w] >= 2
        /\ [w |-> w, n |-> count[w]] \in out
        /\ \E r \in cities : r.by = w /\ r.country_id = NULL
        /\ \E r \in cities : \E c \in countries :
              r.by = w /\ r.country_id = c.id /\ c.iso_code = r.country_iso_code

\* C13: in the country migration a failed Query, Begin, Prepare or Commit
\* ends the process with no count printed and no country row committed; a
\* decode or insert failure of one record is not fatal, the run can still
\* commit and print its count; and the count printed is the number of rows
\* whose insert succeeded, all of them committed.
C13_Original ==
    kind = "country" =>
        /\ main = "fatal" => out = {} /\ countries = {}
        /\ RunOver =>
              /\ tx[0] = "committed"
              /\ out = {[w |-> 0, n |-> Len(txRows[0])]}
              /\ Cardinality(countries) = Len(txRows[0])
        /\ main \in {"loop", "exec", "commit"} =>
              /\ count[0] = Len(txRows[0])
              /\ countries = {}
        /\ main = "commit" => ENABLED (CountryCommit /\ main' = "reported")

\* the process has ended, or main has printed and is about to return
Terminated == main \in {"reported", "exited", "fatal"}
EmptyOrigin == Len(origin) = 0

PriorRows == {r \in Migrated : "prior" \in DOMAIN r}
NewRows == Migrated \ PriorRows
SrcOf(rows) == {r.src : r \in rows}
\* the number of inserts of this run that succeeded in a committed transaction
CommittedNow ==
    SumOver([w \in Procs |-> IF tx[w] = "committed" THEN Len(txRows[w]) ELSE 0],
            Procs)

\* C15: migration is not idempotent. A second run over the same origin never
\* removes, replaces or skips a row the first run left: when it is over the
\* destination holds the first run's rows plus one new row for every insert
\* the second run committed, so a second run that commits the same origin
\* rows as the first leaves two rows per origin row, twice the first run's
\* count.
C15_RerunDoubles ==
    /\ [][PriorRows' = PriorRows]_vars
    /\ [](RunOver =>
            /\ Cardinality(Migrated) = Cardinality(PriorRows) + CommittedNow
            /\ SrcOf(NewRows) = CommittedSrc
            /\ SrcOf(NewRows) = SrcOf(PriorRows) =>
                  /\ Cardinality(Migrated) = 2 * Cardinality(PriorRows)
                  /\ \A i \in SrcOf(PriorRows) : Cardinality(RowsOf(i)) = 2)

\* a second run is over and the destination holds every origin row twice
C15_Witness ==
    /\ RunOver /\ Len(origin) >= 2
    /\ SrcOf(PriorRows) = DOMAIN origin
    /\ \A i \in DOMAIN origin : Cardinality(RowsOf(i)) = 2

\* C16 as stated: when the coordinator has printed the completion notice
\* and returned, the producer has finished enumerating the source and the
\* relay is closed and empty.
C16_Original ==
    CityOver =>
        /\ pcProd = "done" /\ pos = Len(origin)
        /\ closed /\ queue = <<>>

\* the producer waits at cityChannel <- city with the buffer full and no
\* worker left to receive: no later step of the program lets the send through
ProducerStuck ==
    /\ pcProd = "push" /\ ~CanSend
    /\ \A w \in Workers : pc[w] = "done"

\* C17 as stated, in the form a finite run refutes: the producer is never
\* blocked forever on a push, that is, never left at a push that no worker
\* will receive, with records in the relay that no worker will dequeue.
C17_Original == kind = "city" => ~ProducerStuck

\* the counts worker w printed, and the rows of the destination it inserted
PrintedBy(w) == {m \in out : m.w = w}
CitiesBy(w) == {r \in cities : r.by = w}

\* C18: a worker prints its count only after its Commit succeeded, at most
\* once, and the count is the number of rows its committed transaction added
\* to cities; a worker whose begin, prepare or commit failed prints nothing,
\* and the printed counts never sum to more than the rows the run committed.
C18_CountAfterCommit ==
    kind = "city" =>
        /\ \A w \in Workers :
              /\ Cardinality(PrintedBy(w)) <= 1
              /\ \A m \in PrintedBy(w) :
                    /\ tx[w] = "committed" /\ pc[w] = "done"
                    /\ m.n = Cardinality(CitiesBy(w))
                    /\ m.n = Len(txRows[w])
              /\ tx[w] # "committed" => PrintedBy(w) = {} /\ CitiesBy(w) = {}
              /\ tx[w] = "committed" => PrintedBy(w) # {}
        /\ SumReported <= Cardinality(cities)
        /\ RunOver => SumReported = Cardinality(cities)

\* one worker printed a count of at least one row, the other's commit failed
\* after an insert of its own had succeeded
C18_Witness ==
    /\ kind = "city" /\ RunOver
    /\ \E w \in Workers : \E m \in PrintedBy(w) : m.n >= 1
    /\ \E w \in Workers : tx[w] = "failed" /\ Len(txRows[w]) >= 1

\* a transaction that is over: committed, rolled back by the deferred
\* Rollback, or ended by a Commit that failed (which leaves nothing to roll
\* back: the transaction is closed and the server discarded it)
Finished == {"committed", "rolledback", "failed"}

\* C19: a worker that has returned left no transaction open: it began none,
\* or its transaction is committed, or it is ended without effect; a finished
\* transaction never changes state again; the rows of a transaction that was
\* not committed never reach the destination; and the deferred Rollback that
\* runs after a successful Commit leaves the transaction committed and its
\* rows in the destination.
C19_FinishedOnce ==
    /\ [](kind = "city" =>
            \A w \in Workers :
               /\ pc[w] = "done" => tx[w] \in Finished \cup {"none"}
               /\ (pc[w] = "done" /\ tx[w] = "none") => txRows[w] = <<>>
               /\ tx[w] \in Finished => pc[w] = "done"
               /\ tx[w] \in {"rolledback", "failed"} => CitiesBy(w) = {}
               /\ PrintedBy(w) # {} =>
                     /\ tx[w] = "committed"
                     /\ Range(txRows[w]) \subseteq cities)
    /\ [][\A w \in Workers :
             /\ tx[w] \in Finished => tx'[w] = tx[w]
             /\ tx[w] = "committed" => Range(txRows[w]) \subseteq cities']_vars

\* every exit path at once: both workers returned, one after a commit that
\* added a row, the other after a failed prepare or a failed commit
C19_Witness ==
    /\ kind = "city" /\ \A w \in Workers : pc[w] = "done"
    /\ \E w \in Workers : tx[w] = "committed" /\ CitiesBy(w) # {}
    /\ \E w \in Workers : tx[w] \in {"rolledback", "failed"}

====
